---- MODULE Spec2Model ----
(***************************************************************************)
(* Conformance suite for the storage contract (storagetests.go).           *)
(*                                                                         *)
(* The suite is the program: RunStorageTests walks the catalogue `tests`,  *)
(* every scenario is a straight-line body of calls on storage.Interface    *)
(* followed by testify assertions (assert, not require: a failed assertion *)
(* marks the test failed and the body goes on).  Bodies are kept as data   *)
(* (sequences of instructions, one per call or assertion of the source)    *)
(* and executed one instruction per step.                                  *)
(*                                                                         *)
(* The storage backend and the unit package are not part of this           *)
(* repository; they are modelled from the contract the specification       *)
(* gives for them (sections 3, 4.3 and 6): a reference backend that keeps  *)
(* one backing store per createStorage() call and stores a list unit as    *)
(* the sequence of its children's identifiers.                             *)
(***************************************************************************)
EXTENDS Integers, Sequences, FiniteSets

\* number of times RunStorageTests is invoked on the same backend
MaxRuns == 2

VARIABLES
    listsBy,     \* backend: a list unit is kept by "reference" or by "value"
    l,           \* LoadFromConfigFunc of the current run: "nil" or "func"
    run,         \* number of RunStorageTests invocations so far
    test,        \* index of the catalogue entry being run (0: not started)
    frame,       \* "runner", "test" (scenario body) or "subtest" (nested t.Run)
    sub,         \* index in unitsTests of the nested sub-test
    pc,          \* next instruction of the body being executed
    regs,        \* local variables of the body
    failed,      \* Failed() of the scenario's t and of the nested t
    verdict,     \* outcome of every catalogue entry in the current run
    subverdict,  \* outcome of every nested sub-test of the current scenario
    trace,       \* calls issued by the current scenario / nested sub-test
    stores,      \* backend: backing stores, one per createStorage() call
    handles,     \* backend: storage.Interface values handed out
    createCalls, \* per handle: number of Create() calls made on it
    started,     \* sub-tests started by t.Run in the current run, in order
    only,        \* entry the -run pattern of the current run selects (0: all)
    backend      \* the backend under test: "conforming" or the defect it has

vars == <<listsBy, l, run, test, frame, sub, pc, regs, failed, verdict, subverdict,
          trace, stores, handles, createCalls, started, only, backend>>

-----------------------------------------------------------------------------
(* unit package: values, identity, structural equality                     *)

NilUnit ==
    [id |-> "", type |-> "nil", title |-> "", data |-> "", lang |-> "",
     todo |-> <<>>, items |-> <<>>]

NewUnit(id, title) ==
    [NilUnit EXCEPT !.id = id, !.type = "unit", !.title = title]

NewTextPlain(id, title, data) ==
    [NilUnit EXCEPT !.id = id, !.type = "text_plain", !.title = title,
                    !.data = data]

NewTextMarkdown(id, title, data) ==
    [NilUnit EXCEPT !.id = id, !.type = "text_markdown", !.title = title,
                    !.data = data]

NewTextCode(id, title, data, lang) ==
    [NilUnit EXCEPT !.id = id, !.type = "text_code", !.title = title,
                    !.data = data, !.lang = lang]

NewTodo(id, title, todo) ==
    [NilUnit EXCEPT !.id = id, !.type = "todo", !.title = title, !.todo = todo]

NewList(id, title, items) ==
    [NilUnit EXCEPT !.id = id, !.type = "list", !.title = title,
                    !.items = items]

\* unit.Equal: same type tag, same payload; lists element-wise, in order
RECURSIVE Equal(_, _)
Equal(a, b) ==
    /\ a.type = b.type
    /\ a.type # "nil"
    /\ a.title = b.title
    /\ a.data = b.data
    /\ a.lang = b.lang
    /\ a.todo = b.todo
    /\ Len(a.items) = Len(b.items)
    /\ \A i \in 1..Len(a.items) : Equal(a.items[i], b.items[i])

-----------------------------------------------------------------------------
(* fixtures built by the scenarios                                         *)

unitUnit == NewUnit("id-unit", "MyUnit")
unitTextPlain == NewTextPlain("id-plain", "MyUnit", "MyData")
unitTextMarkdown == NewTextMarkdown("id-markdown", "MyUnit", "MyData")
unitTextCode == NewTextCode("id-code", "MyUnit", "MyData", "MyLang")
unitTodo ==
    NewTodo("id-todo", "MyUnit",
            << [data |-> "Data1", done |-> TRUE],
               [data |-> "Data2", done |-> FALSE] >>)
unitsTests ==
    <<unitUnit, unitTextPlain, unitTextMarkdown, unitTextCode, unitTodo>>
unitList == NewList("id-list", "MyUnit", unitsTests)
\* unit.NewUnit() of "can not be used before it will be created"
newUnit == NewUnit("id-new", "")

Fixture(name) ==
    CASE name = "unitUnit" -> unitUnit
      [] name = "unitTextPlain" -> unitTextPlain
      [] name = "unitTextMarkdown" -> unitTextMarkdown
      [] name = "unitTextCode" -> unitTextCode
      [] name = "unitTodo" -> unitTodo
      [] name = "unitList" -> unitList
      [] name = "newUnit" -> newUnit
      [] OTHER -> NilUnit

-----------------------------------------------------------------------------
(* storage backend: reference implementation of the storage contract       *)

EmptyUnits == [i \in {} |-> NilUnit]

Loc(h) == handles[h].loc

State(h) == stores[Loc(h)].state

\* what a backend keeps for a unit: the unit itself, or, when lists are
\* kept by reference, the unit with its children replaced by their ids
Encode(u) ==
    IF listsBy = "value" THEN u
    ELSE [u EXCEPT !.items = [i \in DOMAIN u.items |-> u.items[i].id]]

\* the unit kept under id, children resolved from the same store;
\* NilUnit when id or one of the children is not there
RECURSIVE Resolve(_, _)
Resolve(units, id) ==
    IF id \notin DOMAIN units
    THEN NilUnit
    ELSE LET rec == units[id]
             kids == [i \in DOMAIN rec.items |-> Resolve(units, rec.items[i])]
         IN  IF \E i \in DOMAIN kids : kids[i] = NilUnit
             THEN NilUnit
             ELSE [rec EXCEPT !.items = kids]

Decode(units, id) ==
    IF listsBy = "value"
    THEN IF id \in DOMAIN units THEN units[id] ELSE NilUnit
    ELSE Resolve(units, id)

\* CreateFunc: a fresh, uninitialized instance on a backing store of its own
createStorage ==
    [stores  |-> Append(stores, [state |-> "uninitialized", units |-> EmptyUnits]),
     handles |-> Append(handles, [loc |-> Len(stores) + 1, origin |-> "createStorage"])]

IsCreated(h) == State(h) = "created"

\* Each operation yields the set of outcomes the contract allows.
Create(h) ==
    IF IsCreated(h)
    THEN {[err |-> e, stores |-> stores] : e \in BOOLEAN}
    ELSE {[err |-> FALSE, stores |-> [stores EXCEPT ![Loc(h)].state = "created"]]}

Remove(h) ==
    IF IsCreated(h)
    THEN {[err |-> FALSE,
           stores |-> [stores EXCEPT ![Loc(h)] =
                          [state |-> "removed", units |-> EmptyUnits]]]}
    ELSE {[err |-> FALSE, stores |-> stores]}

SaveUnit(h, u) ==
    IF ~IsCreated(h) \/ u = NilUnit
    THEN {[err |-> TRUE, stores |-> stores]}
    ELSE LET units == stores[Loc(h)].units
         IN  {[err |-> FALSE,
               stores |-> [stores EXCEPT ![Loc(h)].units =
                   [i \in DOMAIN units \cup {u.id} |->
                       IF i = u.id THEN Encode(u) ELSE units[i]]]]}

LoadUnit(h, id) ==
    IF ~IsCreated(h) \/ id = ""
    THEN {[err |-> TRUE, val |-> NilUnit]}
    ELSE LET v == Decode(stores[Loc(h)].units, id)
         IN  {[err |-> v = NilUnit, val |-> v]}

RemoveUnit(h, u) ==
    IF ~IsCreated(h) \/ u = NilUnit \/ u.id \notin DOMAIN stores[Loc(h)].units
    THEN {[err |-> TRUE, stores |-> stores]}
    ELSE LET units == stores[Loc(h)].units
         IN  {[err |-> FALSE,
               stores |-> [stores EXCEPT ![Loc(h)].units =
                   [i \in DOMAIN units \ {u.id} |-> units[i]]]]}

\* json.Marshal(s): the configuration (where the data is), not the data
Marshal(h) ==
    {[err |-> FALSE, val |-> <<"{", "root", ":", Loc(h), "}">>]}

\* LoadFromConfigFunc: parses the blob, hands out an instance on the store
\* it names (handle 0 is the nil storage.Interface)
loadFromConfig(b) ==
    IF /\ Len(b) = 5
       /\ b[1] = "{" /\ b[2] = "root" /\ b[3] = ":" /\ b[5] = "}"
       /\ b[4] \in 1..Len(stores)
    THEN {[err |-> FALSE, handle |-> Len(handles) + 1,
           handles |-> Append(handles, [loc |-> b[4], origin |-> "loadFromConfig"])]}
    ELSE {[err |-> TRUE, handle |-> 0, handles |-> handles]}

\* the error value of a call: nil, or an error of one of the kinds of the
\* contract; which kind a backend gives to a failure is its own choice
NoErr == "nil"
ErrorKinds == {"NotInitialized", "InvalidArgument", "NotFound", "BackendFailure"}
Errors(err) == IF err THEN ErrorKinds ELSE {NoErr}

\* the backends handed to the suite: the reference one, and four that break
\* the contract, each in one operation
Backends ==
    {"conforming", "LoadUnitFails", "ListLoadFails", "RemoveUnitFails",
     "LoaderFails"}

\* what the backend under test answers where the reference answers `outs`:
\* a defective operation fails and leaves the store alone
Answers(op, outs) ==
    CASE backend = "LoadUnitFails" /\ op = "LoadUnit" ->
             {[err |-> TRUE, val |-> NilUnit]}
      [] backend = "ListLoadFails" /\ op = "LoadUnit" ->
             {IF out.val.type = "list" THEN [err |-> TRUE, val |-> NilUnit]
                                       ELSE out : out \in outs}
      [] backend = "RemoveUnitFails" /\ op = "RemoveUnit" ->
             {[err |-> TRUE, stores |-> stores]}
      [] backend = "LoaderFails" /\ op = "l" ->
             {[err |-> TRUE, handle |-> 0, handles |-> handles]}
      [] OTHER -> outs

-----------------------------------------------------------------------------
(* the catalogue: every body is the sequence of calls and assertions of    *)
(* the source, one instruction each                                        *)

\* op: the call or assertion; on: the receiver's variable; arg: the
\* argument's variable (or the literal when lit); dst: the variable assigned
Ins(op, on, arg, lit, dst) ==
    [op |-> op, on |-> on, arg |-> arg, lit |-> lit, dst |-> dst]

Call(op, on, arg, dst) == Ins(op, on, arg, FALSE, dst)
Is(op, arg) == Ins(op, "", arg, FALSE, "")
\* s := c(); is.NoError(s.Create())
Created == <<Call("c", "", "", "s"), Call("Create", "s", "", "e"), Is("NoError", "e")>>
\* is.NoError(s.SaveUnit(u))
Saved(u) == <<Call("SaveUnit", "s", u, "e"), Is("NoError", "e")>>

\* "not created initially" as it would read had it created the instance first
InspectedAfterCreate ==
    Created \o <<Call("IsCreated", "s", "", "b"), Is("False", "b")>>

StorageIsNotCreatedInitially ==
    <<Call("c", "", "", "t"), Call("IsCreated", "t", "", "b"), Is("False", "b")>>

\* "can be successfully created" as it would read had it inspected a new c()
CreatedThenFreshInspected ==
    Created \o
    <<Call("c", "", "", "t"), Call("IsCreated", "t", "", "b"), Is("True", "b")>>

StorageCanBeSuccessfullyCreated ==
    Created \o <<Call("IsCreated", "s", "", "b"), Is("True", "b")>>

\* "can not be used before" as it would read had it created the storage
UsedAfterCreate ==
    Created \o
    <<Call("unit", "", "newUnit", "u"),
      Call("SaveUnit", "s", "u", "e"), Is("Error", "e"),
      Call("RemoveUnit", "s", "u", "e"), Is("Error", "e"),
      Ins("LoadUnit", "s", "123", TRUE, "u"), Is("Error", "e"), Is("Nil", "u")>>

StorageCanNotBeUsedBeforeCreated ==
    <<Call("c", "", "", "s"),
      Call("unit", "", "newUnit", "u"),
      Call("SaveUnit", "s", "u", "e"), Is("Error", "e"),
      Call("RemoveUnit", "s", "u", "e"), Is("Error", "e"),
      Ins("LoadUnit", "s", "123", TRUE, "u"), Is("Error", "e"), Is("Nil", "u")>>

StorageCanBeRemovedIfNotCreatedBefore ==
    <<Call("c", "", "", "s"), Call("Remove", "s", "", "e"), Is("NoError", "e")>>

\* "removed if was created before" as it would read without its Create()
RemovedWithoutCreate ==
    <<Call("c", "", "", "s"), Call("Remove", "s", "", "e"), Is("NoError", "e")>>

StorageCanBeRemovedIfWasCreatedBefore ==
    Created \o <<Call("Remove", "s", "", "e"), Is("NoError", "e")>>

\* "not created when removed" as it would read without its Remove()
InspectedWithoutRemove ==
    Created \o
    <<Call("c", "", "", "t"), Call("IsCreated", "t", "", "b"), Is("False", "b")>>

StorageIsNotCreatedWhenRemoved ==
    Created \o
    <<Call("Remove", "s", "", "e"), Is("NoError", "e"),
      Call("c", "", "", "t"), Call("IsCreated", "t", "", "b"), Is("False", "b")>>

\* the nested sub-test as it would read had it reloaded without removing
SimpleUnitReloadedWithoutRemoval ==
    Created \o Saved("u") \o
    <<Call("LoadUnit", "s", "u", "l"), Is("NoError", "e"),
      Call("Equal", "u", "l", "b"), Is("True", "b"),
      Call("LoadUnit", "s", "l", "r"), Is("Error", "e"), Is("Nil", "r")>>

\* body of the nested sub-test, run once per element u of unitsTests
StorageCanHandleAllSupportedSimpleUnitTypes ==
    Created \o Saved("u") \o
    <<Call("LoadUnit", "s", "u", "l"), Is("NoError", "e"),
      Call("Equal", "u", "l", "b"), Is("True", "b"),
      Call("RemoveUnit", "s", "l", "e"), Is("NoError", "e"),
      Call("LoadUnit", "s", "l", "r"), Is("Error", "e"), Is("Nil", "r")>>

\* the list scenario as it would read had it saved the list alone
ListSavedWithoutItsChildren ==
    Created \o Saved("unitList") \o
    <<Call("LoadUnit", "s", "unitList", "lu"), Is("NoError", "e"),
      Call("Equal", "unitList", "lu", "b"), Is("True", "b"),
      Call("RemoveUnit", "s", "lu", "e"), Is("NoError", "e"),
      Call("LoadUnit", "s", "lu", "r"), Is("Error", "e"), Is("Nil", "r")>>

\* the list scenario as it would read had it saved the list first
ListSavedBeforeItsChildren ==
    Created \o Saved("unitList") \o
    Saved("unitUnit") \o Saved("unitTextPlain") \o Saved("unitTextMarkdown") \o
    Saved("unitTextCode") \o Saved("unitTodo") \o
    <<Call("LoadUnit", "s", "unitList", "lu"), Is("NoError", "e"),
      Call("Equal", "unitList", "lu", "b"), Is("True", "b"),
      Call("RemoveUnit", "s", "lu", "e"), Is("NoError", "e"),
      Call("LoadUnit", "s", "lu", "r"), Is("Error", "e"), Is("Nil", "r")>>

StorageCanHandleListUnit ==
    Created \o
    Saved("unitUnit") \o Saved("unitTextPlain") \o Saved("unitTextMarkdown") \o
    Saved("unitTextCode") \o Saved("unitTodo") \o Saved("unitList") \o
    <<Call("LoadUnit", "s", "unitList", "lu"), Is("NoError", "e"),
      Call("Equal", "unitList", "lu", "b"), Is("True", "b"),
      Call("RemoveUnit", "s", "lu", "e"), Is("NoError", "e"),
      Call("LoadUnit", "s", "lu", "r"), Is("Error", "e"), Is("Nil", "r")>>

\* "nil unit cannot be saved" as it would read without its Create()
NilUnitSavedBeforeCreate ==
    <<Call("c", "", "", "s"), Call("SaveUnit", "s", "nil", "e"), Is("Error", "e")>>

NilUnitCannotBeSaved ==
    Created \o <<Call("SaveUnit", "s", "nil", "e"), Is("Error", "e")>>

\* "nil unit cannot be removed" as it would read had it created twice
CreatedTwice ==
    Created \o
    <<Call("Create", "s", "", "e"),
      Call("RemoveUnit", "s", "nil", "e"), Is("Error", "e")>>

NilUnitCannotBeRemoved ==
    Created \o <<Call("RemoveUnit", "s", "nil", "e"), Is("Error", "e")>>

\* "empty ID cannot be used" as it would read had it removed its storage
LoadedThenStorageRemoved ==
    Created \o
    <<Ins("LoadUnit", "s", "", TRUE, "lu"), Is("Error", "e"), Is("Nil", "lu"),
      Call("Remove", "s", "", "e")>>

EmptyIDCannotBeUsedToLoadUnit ==
    Created \o
    <<Ins("LoadUnit", "s", "", TRUE, "lu"), Is("Error", "e"), Is("Nil", "lu")>>

\* the configuration scenario as it would read had it not saved the unit
ConfigLoadedWithoutSavedUnit ==
    <<Is("SkipNow", "l"),
      Call("unit", "", "unitTextPlain", "u")>> \o
    Created \o
    <<Call("Marshal", "s", "", "config"), Is("NoError", "e"), Is("NotNil", "config"),
      Call("l", "", "config", "sl"), Is("NoError", "e"), Is("NotNil", "sl"),
      Call("LoadUnit", "sl", "u", "lu"), Is("NoError", "e"), Is("NotNil", "lu"),
      Call("Equal", "u", "lu", "b"), Is("True", "b")>>

\* the configuration scenario as it would read without its nil == l guard
ConfigScenarioWithoutSkip ==
    <<Call("unit", "", "unitTextPlain", "u")>> \o
    Created \o Saved("u") \o
    <<Call("Marshal", "s", "", "config"), Is("NoError", "e"), Is("NotNil", "config"),
      Call("l", "", "config", "sl"), Is("NoError", "e"), Is("NotNil", "sl"),
      Call("LoadUnit", "sl", "u", "lu"), Is("NoError", "e"), Is("NotNil", "lu"),
      Call("Equal", "u", "lu", "b"), Is("True", "b")>>

DirectoryConfigCanBeJSONSerializedDeserialized ==
    <<Is("SkipNow", "l"),
      Call("unit", "", "unitTextPlain", "u")>> \o
    Created \o Saved("u") \o
    <<Call("Marshal", "s", "", "config"), Is("NoError", "e"), Is("NotNil", "config"),
      Call("l", "", "config", "sl"), Is("NoError", "e"), Is("NotNil", "sl"),
      Call("LoadUnit", "sl", "u", "lu"), Is("NoError", "e"), Is("NotNil", "lu"),
      Call("Equal", "u", "lu", "b"), Is("True", "b")>>

\* range: the units a scenario runs its body for, each in a nested t.Run
Func(body) == [range |-> <<>>, body |-> body]

tests ==
    << [title |-> "Storage is not created initially when initialized first time with given arguments",
        testFunc |-> Func(StorageIsNotCreatedInitially)],
       [title |-> "Storage can be successfully created",
        testFunc |-> Func(StorageCanBeSuccessfullyCreated)],
       [title |-> "Storage can not be used before it will be created",
        testFunc |-> Func(StorageCanNotBeUsedBeforeCreated)],
       [title |-> "Storage can be removed if not created before",
        testFunc |-> Func(StorageCanBeRemovedIfNotCreatedBefore)],
       [title |-> "Storage can be removed if was created before",
        testFunc |-> Func(StorageCanBeRemovedIfWasCreatedBefore)],
       [title |-> "Storage is not created when removed",
        testFunc |-> Func(StorageIsNotCreatedWhenRemoved)],
       [title |-> "Storage can handle all supported simple unit types",
        testFunc |-> [range |-> unitsTests,
                      body |-> StorageCanHandleAllSupportedSimpleUnitTypes]],
       [title |-> "Storage can handle list unit",
        testFunc |-> Func(StorageCanHandleListUnit)],
       [title |-> "Nil unit cannot be saved",
        testFunc |-> Func(NilUnitCannotBeSaved)],
       [title |-> "Nil unit cannot be removed",
        testFunc |-> Func(NilUnitCannotBeRemoved)],
       [title |-> "Empty ID cannot be used to load unit",
        testFunc |-> Func(EmptyIDCannotBeUsedToLoadUnit)],
       [title |-> "Directory config can be JSON serialized/deserialized ",
        testFunc |-> Func(DirectoryConfigCanBeJSONSerializedDeserialized)] >>

-----------------------------------------------------------------------------
(* execution                                                               *)

HandleRegs == {"s", "t", "sl"}
UnitRegs == {"u", "l", "lu", "r"}

\* locals of a body before its first statement: nil everywhere
NoRegs ==
    [s |-> 0, t |-> 0, sl |-> 0,
     u |-> NilUnit, l |-> NilUnit, lu |-> NilUnit, r |-> NilUnit,
     e |-> NoErr, b |-> FALSE, config |-> <<>>]

NoVerdicts == [i \in 1..Len(tests) |-> "none"]

\* the unit an argument denotes: nil, a local, or a fixture of the closure
Operand(name) ==
    IF name = "nil" THEN NilUnit
    ELSE IF name \in UnitRegs THEN regs[name]
    ELSE Fixture(name)

Body == tests[test].testFunc.body
Range == tests[test].testFunc.range

\* a body is being executed and its next statement is an `op`
At(op) ==
    /\ test \in 1..Len(tests)
    /\ \/ frame = "subtest"
       \/ frame = "test" /\ Len(Range) = 0
    /\ pc \in 1..Len(Body)
    /\ Body[pc].op = op

\* one call as the scenario saw it: the instance and the state it was in,
\* the argument (id, unit) and the results (err, the unit val, the bool b)
Entry(op, h, before, id, u, err, val, b) ==
    [op |-> op, h |-> h, before |-> before, id |-> id, unit |-> u,
     err |-> err, val |-> val, b |-> b]

Init ==
    /\ listsBy \in {"reference", "value"}
    /\ l = "nil"
    /\ run = 0
    /\ test = 0
    /\ frame = "runner"
    /\ sub = 0
    /\ pc = 0
    /\ regs = NoRegs
    /\ failed = [test |-> FALSE, subtest |-> FALSE]
    /\ verdict = NoVerdicts
    /\ subverdict = <<>>
    /\ trace = <<>>
    /\ stores = <<>>
    /\ handles = <<>>
    /\ createCalls = <<>>
    /\ started = <<>>
    /\ only = 0
    /\ backend = "conforming"

\* a caller invokes RunStorageTests(t, c, l), with or without l
RunStorageTests ==
    /\ frame = "runner"
    /\ test \in {0, Len(tests) + 1}
    /\ run < MaxRuns
    /\ \E lv \in {"nil", "func"} : l' = lv
    /\ run' = run + 1
    /\ test' = 1
    /\ verdict' = NoVerdicts
    /\ sub' = 0
    /\ regs' = NoRegs
    /\ trace' = <<>>
    /\ started' = <<>>
    /\ only' = 0
    /\ UNCHANGED <<backend, listsBy, frame, pc, failed, subverdict, stores, handles,
                   createCalls>>

\* go test -run with a pattern that selects the one entry k: a caller
\* invokes RunStorageTests(t, c, l) and t.Run runs that entry only
RunOne ==
    /\ frame = "runner"
    /\ test \in {0, Len(tests) + 1}
    /\ run < MaxRuns
    /\ \E lv \in {"nil", "func"} : l' = lv
    /\ \E k \in 1..Len(tests) : only' = k
    /\ run' = run + 1
    /\ test' = 1
    /\ verdict' = NoVerdicts
    /\ sub' = 0
    /\ regs' = NoRegs
    /\ trace' = <<>>
    /\ started' = <<>>
    /\ UNCHANGED <<backend, listsBy, frame, pc, failed, subverdict, stores, handles,
                   createCalls>>

\* t.Run(test.title, ...) of an entry the -run pattern does not select:
\* the body is not run
tRunNoMatch ==
    /\ frame = "runner"
    /\ test \in 1..Len(tests)
    /\ only \notin {0, test}
    /\ test' = test + 1
    /\ UNCHANGED <<backend, only, listsBy, l, run, frame, sub, pc, regs, failed, verdict,
                   subverdict, trace, stores, handles, createCalls, started>>

\* t.Run(test.title, ...): the scenario starts on a t of its own
tRun ==
    /\ frame = "runner"
    /\ test \in 1..Len(tests)
    /\ only \in {0, test}
    /\ frame' = "test"
    /\ sub' = 0
    /\ pc' = 1
    /\ regs' = NoRegs
    /\ failed' = [test |-> FALSE, subtest |-> FALSE]
    /\ subverdict' = [i \in 1..Len(Range) |-> "none"]
    /\ trace' = <<>>
    /\ started' = Append(started, <<test, 0>>)
    /\ UNCHANGED <<backend, only, listsBy, l, run, test, verdict, stores, handles, createCalls>>

\* t.Run(u.Type().String(), ...) for the next u of unitsTests
subRun ==
    /\ frame = "test"
    /\ sub < Len(Range)
    /\ frame' = "subtest"
    /\ sub' = sub + 1
    /\ pc' = 1
    /\ regs' = [NoRegs EXCEPT !.u = Range[sub + 1]]
    /\ failed' = [failed EXCEPT !.subtest = FALSE]
    /\ trace' = <<>>
    /\ started' = Append(started, <<test, sub + 1>>)
    /\ UNCHANGED <<backend, only, listsBy, l, run, test, verdict, subverdict, stores, handles,
                   createCalls>>

\* the nested sub-test returns; a failed sub-test fails its parent
subReturn ==
    /\ frame = "subtest"
    /\ pc > Len(Body)
    /\ frame' = "test"
    /\ subverdict' = [subverdict EXCEPT
                         ![sub] = IF failed.subtest THEN "fail" ELSE "pass"]
    /\ failed' = [failed EXCEPT !.test = failed.test \/ failed.subtest]
    /\ UNCHANGED <<backend, only, started, listsBy, l, run, test, sub, pc, regs, verdict, trace, stores,
                   handles, createCalls>>

\* the loop of RunStorageTests as it would go had it stepped over an entry
ReturnSkippingNext ==
    /\ frame = "test"
    /\ IF Len(Range) = 0 THEN pc > Len(Body) ELSE sub = Len(Range)
    /\ frame' = "runner"
    /\ pc' = 0
    /\ verdict' = [verdict EXCEPT
                      ![test] = IF failed.test THEN "fail" ELSE "pass"]
    /\ test' = IF test + 2 <= Len(tests) THEN test + 2 ELSE Len(tests) + 1
    /\ UNCHANGED <<backend, only, started, listsBy, l, run, sub, regs, failed, subverdict, trace,
                   stores, handles, createCalls>>

\* the scenario returns and the loop of RunStorageTests moves on
Return ==
    /\ frame = "test"
    /\ IF Len(Range) = 0 THEN pc > Len(Body) ELSE sub = Len(Range)
    /\ frame' = "runner"
    /\ pc' = 0
    /\ verdict' = [verdict EXCEPT
                      ![test] = IF failed.test THEN "fail" ELSE "pass"]
    /\ test' = test + 1
    /\ UNCHANGED <<backend, only, started, listsBy, l, run, sub, regs, failed, subverdict, trace, stores,
                   handles, createCalls>>

\* if nil == l { t.SkipNow() }
SkipNow ==
    /\ At("SkipNow")
    /\ l = "nil"
    /\ frame' = "runner"
    /\ pc' = 0
    /\ verdict' = [verdict EXCEPT ![test] = "skip"]
    /\ test' = test + 1
    /\ UNCHANGED <<backend, only, started, listsBy, l, run, sub, regs, failed, subverdict, trace, stores,
                   handles, createCalls>>

NotSkipped ==
    /\ At("SkipNow")
    /\ l # "nil"
    /\ pc' = pc + 1
    /\ UNCHANGED <<backend, only, started, listsBy, l, run, test, frame, sub, regs, failed, verdict, subverdict,
                   trace, stores, handles, createCalls>>

\* x := unit.New...(...)
NewFixture ==
    /\ At("unit")
    /\ regs' = [regs EXCEPT ![Body[pc].dst] = Fixture(Body[pc].arg)]
    /\ pc' = pc + 1
    /\ UNCHANGED <<backend, only, started, listsBy, l, run, test, frame, sub, failed, verdict, subverdict,
                   trace, stores, handles, createCalls>>

\* x := c() as it would go had the suite kept one instance for all scenarios:
\* the instance handed out last is used again
CallCShared ==
    /\ At("c")
    /\ IF Len(handles) = 0
       THEN LET out == createStorage
            IN  /\ stores' = out.stores
                /\ handles' = out.handles
                /\ createCalls' = Append(createCalls, 0)
                /\ regs' = [regs EXCEPT ![Body[pc].dst] = 1]
       ELSE /\ regs' = [regs EXCEPT ![Body[pc].dst] = Len(handles)]
            /\ UNCHANGED <<stores, handles, createCalls>>
    /\ trace' = trace
    /\ pc' = pc + 1
    /\ UNCHANGED <<backend, only, started, listsBy, l, run, test, frame, sub, failed, verdict,
                   subverdict>>

\* x := c() as it would go had the variants scenario called c() before its
\* loop: the nested sub-tests after the first use the instance of the first
CallCOncePerScenario ==
    /\ At("c")
    /\ IF frame = "subtest" /\ sub > 1
       THEN /\ regs' = [regs EXCEPT ![Body[pc].dst] = Len(handles)]
            /\ UNCHANGED <<stores, handles, createCalls, trace>>
       ELSE LET out == createStorage
                h == Len(handles) + 1
            IN  /\ stores' = out.stores
                /\ handles' = out.handles
                /\ createCalls' = Append(createCalls, 0)
                /\ regs' = [regs EXCEPT ![Body[pc].dst] = h]
                /\ trace' = Append(trace,
                       Entry("c", h, out.stores[out.handles[h].loc].state, "",
                             NilUnit, FALSE, NilUnit, FALSE))
    /\ pc' = pc + 1
    /\ UNCHANGED <<backend, only, started, listsBy, l, run, test, frame, sub, failed, verdict,
                   subverdict>>

\* x := c()
CallC ==
    /\ At("c")
    /\ LET out == createStorage
           h == Len(handles) + 1
       IN  /\ stores' = out.stores
           /\ handles' = out.handles
           /\ createCalls' = Append(createCalls, 0)
           /\ regs' = [regs EXCEPT ![Body[pc].dst] = h]
           /\ trace' = Append(trace,
                  Entry("c", h, out.stores[out.handles[h].loc].state, "",
                        NilUnit, FALSE, NilUnit, FALSE))
    /\ pc' = pc + 1
    /\ UNCHANGED <<backend, only, started, listsBy, l, run, test, frame, sub, failed, verdict, subverdict>>

\* e := x.Create()
CallCreate ==
    /\ At("Create")
    /\ LET h == regs[Body[pc].on]
       IN  /\ h # 0
           /\ \E out \in Answers("Create", Create(h)) : \E e \in Errors(out.err) :
                /\ stores' = out.stores
                /\ regs' = [regs EXCEPT !.e = e]
                /\ trace' = Append(trace,
                       Entry("Create", h, State(h), "", NilUnit, out.err, NilUnit, FALSE))
           /\ createCalls' = [createCalls EXCEPT ![h] = @ + 1]
    /\ pc' = pc + 1
    /\ UNCHANGED <<backend, only, started, listsBy, l, run, test, frame, sub, failed, verdict, subverdict,
                   handles>>

\* b := x.IsCreated()
CallIsCreated ==
    /\ At("IsCreated")
    /\ LET h == regs[Body[pc].on]
       IN  /\ h # 0
           /\ regs' = [regs EXCEPT !.b = IsCreated(h)]
           /\ trace' = Append(trace,
                  Entry("IsCreated", h, State(h), "", NilUnit, FALSE, NilUnit, IsCreated(h)))
    /\ pc' = pc + 1
    /\ UNCHANGED <<backend, only, started, listsBy, l, run, test, frame, sub, failed, verdict, subverdict,
                   stores, handles, createCalls>>

\* e := x.Remove()
CallRemove ==
    /\ At("Remove")
    /\ LET h == regs[Body[pc].on]
       IN  /\ h # 0
           /\ \E out \in Answers("Remove", Remove(h)) : \E e \in Errors(out.err) :
                /\ stores' = out.stores
                /\ regs' = [regs EXCEPT !.e = e]
                /\ trace' = Append(trace,
                       Entry("Remove", h, State(h), "", NilUnit, out.err, NilUnit, FALSE))
    /\ pc' = pc + 1
    /\ UNCHANGED <<backend, only, started, listsBy, l, run, test, frame, sub, failed, verdict, subverdict,
                   handles, createCalls>>

\* e := x.SaveUnit(u)
CallSaveUnit ==
    /\ At("SaveUnit")
    /\ LET h == regs[Body[pc].on]
           u == Operand(Body[pc].arg)
       IN  /\ h # 0
           /\ \E out \in Answers("SaveUnit", SaveUnit(h, u)) : \E e \in Errors(out.err) :
                /\ stores' = out.stores
                /\ regs' = [regs EXCEPT !.e = e]
                /\ trace' = Append(trace,
                       Entry("SaveUnit", h, State(h), u.id, u, out.err, NilUnit, FALSE))
    /\ pc' = pc + 1
    /\ UNCHANGED <<backend, only, started, listsBy, l, run, test, frame, sub, failed, verdict, subverdict,
                   handles, createCalls>>

\* x, e := y.LoadUnit(id), id a literal or u.ID() of a non-nil u
CallLoadUnit ==
    /\ At("LoadUnit")
    /\ LET h == regs[Body[pc].on]
           id == IF Body[pc].lit THEN Body[pc].arg ELSE Operand(Body[pc].arg).id
       IN  /\ h # 0
           /\ Body[pc].lit \/ Operand(Body[pc].arg) # NilUnit
           /\ \E out \in Answers("LoadUnit", LoadUnit(h, id)) : \E e \in Errors(out.err) :
                /\ regs' = [regs EXCEPT ![Body[pc].dst] = out.val, !.e = e]
                /\ trace' = Append(trace,
                       Entry("LoadUnit", h, State(h), id, NilUnit, out.err, out.val, FALSE))
    /\ pc' = pc + 1
    /\ UNCHANGED <<backend, only, started, listsBy, l, run, test, frame, sub, failed, verdict, subverdict,
                   stores, handles, createCalls>>

\* e := x.RemoveUnit(u)
CallRemoveUnit ==
    /\ At("RemoveUnit")
    /\ LET h == regs[Body[pc].on]
           u == Operand(Body[pc].arg)
       IN  /\ h # 0
           /\ \E out \in Answers("RemoveUnit", RemoveUnit(h, u)) : \E e \in Errors(out.err) :
                /\ stores' = out.stores
                /\ regs' = [regs EXCEPT !.e = e]
                /\ trace' = Append(trace,
                       Entry("RemoveUnit", h, State(h), u.id, u, out.err, NilUnit, FALSE))
    /\ pc' = pc + 1
    /\ UNCHANGED <<backend, only, started, listsBy, l, run, test, frame, sub, failed, verdict, subverdict,
                   handles, createCalls>>

\* b := unit.Equal(x, y)
CallEqual ==
    /\ At("Equal")
    /\ regs' = [regs EXCEPT !.b = Equal(Operand(Body[pc].on), Operand(Body[pc].arg))]
    /\ pc' = pc + 1
    /\ UNCHANGED <<backend, only, started, listsBy, l, run, test, frame, sub, failed, verdict, subverdict,
                   trace, stores, handles, createCalls>>

\* config, err := json.Marshal(s)
CallMarshal ==
    /\ At("Marshal")
    /\ LET h == regs[Body[pc].on]
       IN  /\ h # 0
           /\ \E out \in Answers("Marshal", Marshal(h)) : \E e \in Errors(out.err) :
                /\ regs' = [regs EXCEPT !.config = out.val, !.e = e]
                /\ trace' = Append(trace,
                       Entry("Marshal", h, State(h), "", NilUnit, out.err, NilUnit, FALSE))
    /\ pc' = pc + 1
    /\ UNCHANGED <<backend, only, started, listsBy, l, run, test, frame, sub, failed, verdict, subverdict,
                   stores, handles, createCalls>>

\* sl, err := l(config)
CallL ==
    /\ At("l")
    /\ l # "nil"
    /\ \E out \in Answers("l", loadFromConfig(regs.config)) : \E e \in Errors(out.err) :
         /\ handles' = out.handles
         /\ createCalls' = IF out.handle = 0 THEN createCalls
                           ELSE Append(createCalls, 0)
         /\ regs' = [regs EXCEPT ![Body[pc].dst] = out.handle, !.e = e]
         /\ trace' = Append(trace,
                Entry("l", out.handle,
                      IF out.handle = 0 THEN ""
                      ELSE stores[out.handles[out.handle].loc].state,
                      "", NilUnit, out.err, NilUnit, FALSE))
    /\ pc' = pc + 1
    /\ UNCHANGED <<backend, only, started, listsBy, l, run, test, frame, sub, failed, verdict, subverdict,
                   stores>>

\* the assertions as they would be had is.Error matched the kind the
\* contract names for a storage that is not created
HoldsMatchingKind(op, name) ==
    CASE op = "NoError" -> regs[name] = NoErr
      [] op = "Error" -> regs[name] = "NotInitialized"
      [] op = "True" -> regs[name]
      [] op = "False" -> ~regs[name]
      [] op = "Nil" -> IF name \in HandleRegs THEN regs[name] = 0
                       ELSE IF name = "config" THEN Len(regs[name]) = 0
                       ELSE regs[name] = NilUnit
      [] op = "NotNil" -> IF name \in HandleRegs THEN regs[name] # 0
                          ELSE IF name = "config" THEN Len(regs[name]) # 0
                          ELSE regs[name] # NilUnit

\* what an assertion of testify requires of the local it is given
Holds(op, name) ==
    CASE op = "NoError" -> regs[name] = NoErr
      [] op = "Error" -> regs[name] # NoErr
      [] op = "True" -> regs[name]
      [] op = "False" -> ~regs[name]
      [] op = "Nil" -> IF name \in HandleRegs THEN regs[name] = 0
                       ELSE IF name = "config" THEN Len(regs[name]) = 0
                       ELSE regs[name] = NilUnit
      [] op = "NotNil" -> IF name \in HandleRegs THEN regs[name] # 0
                          ELSE IF name = "config" THEN Len(regs[name]) # 0
                          ELSE regs[name] # NilUnit

\* is.NoError / Error / True / False / Nil / NotNil: a failed assertion
\* marks the t of the assertion object failed, and the body goes on
Assertion ==
    /\ \E op \in {"NoError", "Error", "True", "False", "Nil", "NotNil"} :
         /\ At(op)
         /\ failed' = IF Holds(op, Body[pc].arg) THEN failed
                      ELSE [failed EXCEPT ![frame] = TRUE]
    /\ pc' = pc + 1
    /\ UNCHANGED <<backend, only, started, listsBy, l, run, test, frame, sub, regs, verdict, subverdict,
                   trace, stores, handles, createCalls>>

Next ==
    \/ RunStorageTests
    \/ tRun
    \/ subRun
    \/ subReturn
    \/ Return
    \/ SkipNow
    \/ NotSkipped
    \/ NewFixture
    \/ CallC
    \/ CallCreate
    \/ CallIsCreated
    \/ CallRemove
    \/ CallSaveUnit
    \/ CallLoadUnit
    \/ CallRemoveUnit
    \/ CallEqual
    \/ CallMarshal
    \/ CallL
    \/ Assertion

Spec == Init /\ [][Next]_vars

\* the catalogue run whole or one entry at a time, in any order
NextAnyOrder ==
    \/ Next
    \/ RunOne
    \/ tRunNoMatch

SpecAnyOrder == Init /\ [][NextAnyOrder]_vars

\* x.ID() on a nil unit, or a method called on a nil storage.Interface: the
\* goroutine of the test panics; the testing package reports the test (and
\* its parent) failed and the process ends, the rest of the catalogue unrun
Panic ==
    /\ \E op \in {"Create", "IsCreated", "Remove", "SaveUnit", "LoadUnit",
                  "RemoveUnit"} : At(op)
    /\ \/ regs[Body[pc].on] = 0
       \/ /\ Body[pc].op = "LoadUnit"
          /\ ~Body[pc].lit
          /\ Operand(Body[pc].arg) = NilUnit
    /\ frame' = "panicked"
    /\ verdict' = [verdict EXCEPT ![test] = "fail"]
    /\ subverdict' = IF frame = "subtest"
                     THEN [subverdict EXCEPT ![sub] = "fail"]
                     ELSE subverdict
    /\ failed' = [test |-> TRUE, subtest |-> frame = "subtest"]
    /\ UNCHANGED <<backend, only, started, listsBy, l, run, test, sub, pc, regs,
                   trace, stores, handles, createCalls>>

\* the suite is handed any backend, conforming or not
InitAny ==
    /\ backend \in Backends
    /\ listsBy \in {"reference", "value"}
    /\ l = "nil"
    /\ run = 0
    /\ test = 0
    /\ frame = "runner"
    /\ sub = 0
    /\ pc = 0
    /\ regs = NoRegs
    /\ failed = [test |-> FALSE, subtest |-> FALSE]
    /\ verdict = NoVerdicts
    /\ subverdict = <<>>
    /\ trace = <<>>
    /\ stores = <<>>
    /\ handles = <<>>
    /\ createCalls = <<>>
    /\ started = <<>>
    /\ only = 0

NextAny ==
    \/ Next
    \/ Panic

SpecAny == InitAny /\ [][NextAny]_vars

\* the run is failed when one of its scenarios is
RunFailed == \E i \in 1..Len(tests) : verdict[i] = "fail"

-----------------------------------------------------------------------------
(* vocabulary of the properties                                            *)

TestNo(title) == CHOOSE i \in 1..Len(tests) : tests[i].title = title

\* the scenario has just returned: trace and regs are still the ones it left
Finished(title) == frame = "runner" /\ test = TestNo(title) + 1

\* the nested sub-test for unitsTests[sub] has just returned
SubFinished == sub >= 1 /\ frame \in {"test", "runner"}

Calls == 1..Len(trace)

\* two handles on the same backing store
SameStore(g, h) == g # 0 /\ h # 0 /\ Loc(g) = Loc(h)

\* trace[i] and trace[j] are a call on the same store about the same unit
SameUnit(i, j) ==
    SameStore(trace[i].h, trace[j].h) /\ trace[i].id = trace[j].id

\* no call strictly between i and j changes what is kept under trace[i].id
Untouched(i, j) ==
    \A k \in (i + 1)..(j - 1) :
        ~ \/ trace[k].op \in {"SaveUnit", "RemoveUnit"} /\ SameUnit(i, k)
          \/ trace[k].op = "Remove" /\ SameStore(trace[i].h, trace[k].h)

\* SaveUnit(u) on a created instance at i, the next LoadUnit(u.ID()) at j
RoundTrip(i, j) ==
    /\ i < j
    /\ trace[i].op = "SaveUnit" /\ trace[i].before = "created"
    /\ trace[i].unit # NilUnit
    /\ trace[j].op = "LoadUnit" /\ SameUnit(i, j)
    /\ Untouched(i, j)

RoundTripOK(i, j) ==
    /\ ~trace[i].err
    /\ ~trace[j].err
    /\ Equal(trace[i].unit, trace[j].val)

\* the variant whose round trip the trace shows
RoundTripped(type) ==
    \E i, j \in Calls :
        RoundTrip(i, j) /\ RoundTripOK(i, j) /\ trace[i].unit.type = type

\* C1: for every unit variant (plain, plain-text, markdown, code, todo, list),
\* SaveUnit(u) on a created instance returns no error and the following
\* LoadUnit(u.ID()) returns no error and a unit structurally equal to u; the
\* nested sub-test of every simple variant and the list scenario each end
\* having seen it for their variant.
SaveThenLoadYieldsEqualUnit ==
    /\ \A i \in Calls :
         (trace[i].op = "SaveUnit" /\ trace[i].before = "created"
            /\ trace[i].unit # NilUnit) => ~trace[i].err
    /\ \A i, j \in Calls : RoundTrip(i, j) => RoundTripOK(i, j)
    /\ SubFinished => RoundTripped(unitsTests[sub].type)
    /\ Finished("Storage can handle list unit") => RoundTripped("list")

\* all six variants have gone through the round trip: the five nested
\* sub-tests passed and the list scenario has just ended with its own
AllVariantsRoundTripped ==
    /\ Finished("Storage can handle list unit")
    /\ verdict[TestNo("Storage can handle all supported simple unit types")] = "pass"
    /\ verdict[TestNo("Storage can handle list unit")] = "pass"
    /\ RoundTripped("list")
    /\ listsBy = "reference"

\* RemoveUnit at i went through, LoadUnit of the same identifier at j
RemovedThenLoaded(i, j) ==
    /\ i < j
    /\ trace[i].op = "RemoveUnit" /\ ~trace[i].err
    /\ trace[j].op = "LoadUnit" /\ SameUnit(i, j)
    /\ \A k \in (i + 1)..(j - 1) : ~(trace[k].op = "SaveUnit" /\ SameUnit(i, k))

\* trace[i] removes a unit that was saved on the instance and is still kept
RemovesSaved(i) ==
    /\ trace[i].op = "RemoveUnit"
    /\ \E k \in 1..(i - 1) :
         /\ trace[k].op = "SaveUnit" /\ ~trace[k].err /\ SameUnit(k, i)
         /\ Untouched(k, i)

\* the trace ends with the removal of a saved unit of the given variant and
\* the failed reload of its identifier
RemovalSeen(type) ==
    \E i, j \in Calls :
        /\ RemovesSaved(i) /\ RemovedThenLoaded(i, j)
        /\ trace[i].unit.type = type
        /\ trace[j].err /\ trace[j].val = NilUnit

\* C2: for every variant including list, RemoveUnit of a saved unit returns
\* no error and from then on every LoadUnit with that unit's identifier on
\* the same instance returns an error and a nil unit (in the trace, and in
\* whatever state the scenario is in afterwards); every nested sub-test and
\* the list scenario end having seen it for their variant.
RemovedUnitCannotBeLoaded ==
    /\ \A i \in Calls : RemovesSaved(i) => ~trace[i].err
    /\ \A i, j \in Calls :
         RemovedThenLoaded(i, j) => trace[j].err /\ trace[j].val = NilUnit
    /\ \A i \in Calls :
         (/\ trace[i].op = "RemoveUnit" /\ ~trace[i].err
          /\ \A k \in (i + 1)..Len(trace) :
                ~(trace[k].op = "SaveUnit" /\ SameUnit(i, k)))
         => \A out \in LoadUnit(trace[i].h, trace[i].id) :
                out.err /\ out.val = NilUnit
    /\ SubFinished => RemovalSeen(unitsTests[sub].type)
    /\ Finished("Storage can handle list unit") => RemovalSeen("list")

\* the list scenario has just ended: the list was saved, removed, and its
\* reload failed, while its children are still kept
ListRemovedAndGone ==
    /\ Finished("Storage can handle list unit")
    /\ RemovalSeen("list")
    /\ \E out \in LoadUnit(regs.s, unitTodo.id) : ~out.err

UnitOps == {"SaveUnit", "LoadUnit", "RemoveUnit"}

\* units and identifiers a caller may pass
ProbeUnits ==
    {unitUnit, unitTextPlain, unitTextMarkdown, unitTextCode, unitTodo,
     unitList, newUnit, NilUnit}
ProbeIDs == {u.id : u \in ProbeUnits} \cup {"123"}

Handles == 1..Len(handles)

\* every unit operation on h fails and leaves the backend as it is
UnitOpsFail(h) ==
    /\ \A u \in ProbeUnits :
         /\ \A out \in SaveUnit(h, u) : out.err /\ out.stores = stores
         /\ \A out \in RemoveUnit(h, u) : out.err /\ out.stores = stores
    /\ \A id \in ProbeIDs :
         \A out \in LoadUnit(h, id) : out.err /\ out.val = NilUnit

\* the trace shows op called on an instance in state st, and failing
FailedIn(op, st) ==
    \E i \in Calls :
        /\ trace[i].op = op /\ trace[i].before = st
        /\ trace[i].err /\ trace[i].val = NilUnit

\* C3: on an instance that is uninitialized or removed, SaveUnit and
\* RemoveUnit return an error and LoadUnit returns an error and a nil unit;
\* a unit operation that went through was issued in state created; the
\* "can not be used before it will be created" scenario ends having seen the
\* three operations fail on an uninitialized instance.
UnitOperationsNeedCreated ==
    /\ \A h \in Handles : ~IsCreated(h) => UnitOpsFail(h)
    /\ \A i \in Calls :
         trace[i].op \in UnitOps =>
            /\ trace[i].before # "created" =>
                  trace[i].err /\ trace[i].val = NilUnit
            /\ ~trace[i].err => trace[i].before = "created"
    /\ Finished("Storage can not be used before it will be created") =>
         \A op \in UnitOps : FailedIn(op, "uninitialized")

\* the scenario has just seen the three operations fail on an uninitialized
\* instance, and an instance removed by an earlier scenario is around
UnusableSeen ==
    /\ Finished("Storage can not be used before it will be created")
    /\ \A op \in UnitOps : FailedIn(op, "uninitialized")
    /\ \E h \in Handles : State(h) = "removed"

\* trace[i] is a call on an instance on which the trace shows no Create()
NotYetCreated(i) ==
    \A k \in 1..(i - 1) : ~(trace[k].op = "Create" /\ trace[k].h = trace[i].h)

\* C4: an instance returned by createStorage reports IsCreated() = false as
\* long as Create() has not been called on it, whatever has run before; the
\* "not created initially" scenario ends having seen it.
FreshInstanceIsNotCreated ==
    /\ \A h \in Handles :
         (handles[h].origin = "createStorage" /\ createCalls[h] = 0)
            => ~IsCreated(h)
    /\ \A i \in Calls :
         /\ trace[i].op = "c" => trace[i].before = "uninitialized"
         /\ (/\ trace[i].op = "IsCreated"
             /\ handles[trace[i].h].origin = "createStorage"
             /\ NotYetCreated(i)) => ~trace[i].b
    /\ Finished("Storage is not created initially when initialized first time with given arguments") =>
         \E i \in Calls :
            trace[i].op = "IsCreated" /\ NotYetCreated(i) /\ ~trace[i].b

\* a second run has just inspected a fresh instance while storages created
\* by earlier scenarios are still around
FreshInspectedAfterOthers ==
    /\ Finished("Storage is not created initially when initialized first time with given arguments")
    /\ run = 2
    /\ ~regs.b /\ createCalls[regs.t] = 0
    /\ \E h \in Handles : IsCreated(h)

\* Create() at i on a fresh instance, IsCreated() on it right after
CreatedThenInspected(i) ==
    /\ trace[i].op = "Create" /\ trace[i].before = "uninitialized"
    /\ i < Len(trace)
    /\ trace[i + 1].op = "IsCreated" /\ trace[i + 1].h = trace[i].h

\* C5: Create() on a fresh instance returns no error and right afterwards
\* IsCreated() on the same instance is true; the "can be successfully
\* created" scenario ends having seen it.
CreateMakesCreated ==
    /\ \A i \in Calls :
         (trace[i].op = "Create" /\ trace[i].before = "uninitialized") =>
            /\ ~trace[i].err
            /\ i = Len(trace) => IsCreated(trace[i].h)
            /\ CreatedThenInspected(i) => trace[i + 1].b
    /\ Finished("Storage can be successfully created") =>
         /\ \E i \in Calls : CreatedThenInspected(i) /\ trace[i + 1].b
         /\ verdict[TestNo("Storage can be successfully created")] = "pass"

CreatedSeen ==
    /\ Finished("Storage can be successfully created")
    /\ regs.e = NoErr /\ regs.b
    /\ \E i \in Calls : CreatedThenInspected(i)

\* the trace shows Remove() called in state st and returning no error
RemovedIn(st) ==
    \E i \in Calls :
        trace[i].op = "Remove" /\ trace[i].before = st /\ ~trace[i].err

\* C6: Remove() returns no error on an instance that was never created and
\* on one that was created; on a never created instance it changes nothing
\* and the instance stays not created; the two removal scenarios end having
\* seen the one and the other.
RemoveAlwaysSucceeds ==
    /\ \A h \in Handles : \A out \in Remove(h) :
         /\ ~out.err
         /\ ~IsCreated(h) => out.stores = stores
    /\ \A i \in Calls :
         trace[i].op = "Remove" =>
            /\ ~trace[i].err
            /\ i = Len(trace) => ~IsCreated(trace[i].h)
            /\ (i = Len(trace) /\ trace[i].before = "uninitialized") =>
                  stores[Loc(trace[i].h)] =
                      [state |-> "uninitialized", units |-> EmptyUnits]
    /\ Finished("Storage can be removed if not created before") =>
         RemovedIn("uninitialized")
    /\ Finished("Storage can be removed if was created before") =>
         RemovedIn("created")

\* a created instance has just been removed, after the scenario before
\* removed a never created one
BothRemovalsSeen ==
    /\ Finished("Storage can be removed if was created before")
    /\ RemovedIn("created")
    /\ State(regs.s) = "removed"
    /\ \E h \in Handles :
         h # regs.s /\ createCalls[h] = 0 /\ State(h) = "uninitialized"

\* Create() at a and Remove() at b on one instance, both without error,
\* then a new instance from c() at m, inspected at j
InspectedAfterRemoval(a, b, m, j) ==
    /\ a < b /\ b < m /\ m < j
    /\ trace[a].op = "Create" /\ ~trace[a].err
    /\ trace[b].op = "Remove" /\ ~trace[b].err /\ trace[b].h = trace[a].h
    /\ trace[m].op = "c" /\ trace[m].h # trace[a].h
    /\ trace[j].op = "IsCreated" /\ trace[j].h = trace[m].h

\* C7: after Create() then Remove() on one instance, a new instance from a
\* second createStorage() call reports IsCreated() = false; the "not created
\* when removed" scenario ends having seen it.
RemovalSeenThroughFreshHandle ==
    /\ \A a \in Calls : trace[a].op = "Create" =>
         \A b \in Calls : (trace[b].op = "Remove" /\ a < b) =>
            \A m \in Calls : (trace[m].op = "c" /\ b < m) =>
               \A j \in Calls :
                  InspectedAfterRemoval(a, b, m, j) => ~trace[j].b
    /\ Finished("Storage is not created when removed") =>
         /\ \E a, b, m, j \in Calls :
               InspectedAfterRemoval(a, b, m, j) /\ ~trace[j].b
         /\ ~IsCreated(regs.s)

FreshHandleInspectedAfterRemoval ==
    /\ Finished("Storage is not created when removed")
    /\ regs.s # regs.t
    /\ State(regs.s) = "removed"
    /\ ~regs.b

\* the trace shows op rejecting the nil unit / the empty identifier on a
\* created instance
RejectedOnCreated(op) ==
    \E i \in Calls :
        /\ trace[i].op = op /\ trace[i].before = "created"
        /\ trace[i].unit = NilUnit /\ trace[i].id = ""
        /\ trace[i].err /\ trace[i].val = NilUnit

\* C8: SaveUnit(nil) and RemoveUnit(nil) always return an error and
\* LoadUnit("") always returns an error and a nil unit, whatever the state
\* of the instance; the three scenarios end having seen it on a created one.
NilAndEmptyAreRejected ==
    /\ \A h \in Handles :
         /\ \A out \in SaveUnit(h, NilUnit) : out.err /\ out.stores = stores
         /\ \A out \in RemoveUnit(h, NilUnit) : out.err /\ out.stores = stores
         /\ \A out \in LoadUnit(h, "") : out.err /\ out.val = NilUnit
    /\ \A i \in Calls :
         /\ (trace[i].op \in {"SaveUnit", "RemoveUnit"} /\ trace[i].unit = NilUnit)
               => trace[i].err
         /\ (trace[i].op = "LoadUnit" /\ trace[i].id = "")
               => trace[i].err /\ trace[i].val = NilUnit
    /\ Finished("Nil unit cannot be saved") => RejectedOnCreated("SaveUnit")
    /\ Finished("Nil unit cannot be removed") => RejectedOnCreated("RemoveUnit")
    /\ Finished("Empty ID cannot be used to load unit") =>
         RejectedOnCreated("LoadUnit")

\* the third of the three scenarios has just ended, the first two passed
NilAndEmptyRejectedSeen ==
    /\ Finished("Empty ID cannot be used to load unit")
    /\ RejectedOnCreated("LoadUnit")
    /\ IsCreated(regs.s)
    /\ verdict[TestNo("Nil unit cannot be saved")] = "pass"
    /\ verdict[TestNo("Nil unit cannot be removed")] = "pass"

\* SaveUnit(u) at i, the instance serialized at m, rebuilt at k, and
\* LoadUnit(u.ID()) on the rebuilt instance at j
ConfigRoundTrip(i, m, k, j) ==
    /\ i < m /\ m < k /\ k < j
    /\ trace[i].op = "SaveUnit" /\ trace[i].before = "created"
    /\ trace[m].op = "Marshal" /\ trace[m].h = trace[i].h
    /\ trace[k].op = "l"
    /\ trace[j].op = "LoadUnit" /\ trace[j].h = trace[k].h
    /\ trace[j].h # trace[i].h
    /\ trace[j].id = trace[i].id

ConfigRoundTripOK(i, m, k, j) ==
    /\ ~trace[i].err
    /\ ~trace[m].err /\ Len(regs.config) > 0
    /\ ~trace[k].err /\ trace[k].h # 0
    /\ trace[k].before = "created" /\ IsCreated(trace[k].h)
    /\ ~trace[j].err /\ trace[j].val # NilUnit
    /\ Equal(trace[i].unit, trace[j].val)

TheConfigScenario == "Directory config can be JSON serialized/deserialized "

\* C9: with loadFromConfig supplied, after Create() and SaveUnit(u) on s,
\* serializing s gives a non-nil blob without error, loadFromConfig(blob)
\* gives a non-nil instance without error, that instance is already created
\* and LoadUnit(u.ID()) on it returns no error and a non-nil unit equal to u.
ConfigRoundTripKeepsUnit ==
    /\ \A m \in Calls : trace[m].op = "Marshal" =>
         /\ ~trace[m].err
         /\ (m < Len(trace) /\ trace[m + 1].op = "l") =>
               /\ ~trace[m + 1].err
               /\ SameStore(trace[m].h, trace[m + 1].h)
               /\ trace[m + 1].before = trace[m].before
    /\ (Finished(TheConfigScenario) /\ l = "func") =>
         /\ \E i, m, k, j \in Calls :
               ConfigRoundTrip(i, m, k, j) /\ ConfigRoundTripOK(i, m, k, j)
         /\ verdict[TestNo(TheConfigScenario)] = "pass"

ConfigRoundTripSeen ==
    /\ Finished(TheConfigScenario)
    /\ l = "func"
    /\ regs.sl # 0 /\ regs.sl # regs.s
    /\ Equal(regs.u, regs.lu)

\* C10: with loadFromConfig absent the configuration scenario ends skipped
\* without a single call (createStorage included) and does not make the run
\* failed; skipped is the outcome of that scenario only and only then, and
\* the other scenarios end as they do when loadFromConfig is supplied.
AbsentLoaderSkipsOnly ==
    /\ (l = "nil" /\ test = TestNo(TheConfigScenario) /\ frame # "runner") =>
         trace = <<>>
    /\ (l = "nil" /\ Finished(TheConfigScenario)) =>
         /\ verdict[TestNo(TheConfigScenario)] = "skip"
         /\ trace = <<>>
         /\ ~RunFailed
    /\ \A i \in 1..Len(tests) :
         /\ verdict[i] = "skip" => (i = TestNo(TheConfigScenario) /\ l = "nil")
         /\ i # TestNo(TheConfigScenario) => verdict[i] \in {"none", "pass"}
         /\ (i # TestNo(TheConfigScenario) /\ test > i) => verdict[i] = "pass"
    /\ \A i \in Calls :
         trace[i].op = "l" =>
            test \in {TestNo(TheConfigScenario), TestNo(TheConfigScenario) + 1}

SkippedSeen ==
    /\ l = "nil"
    /\ Finished(TheConfigScenario)
    /\ verdict[TestNo(TheConfigScenario)] = "skip"
    /\ \A i \in 1..(Len(tests) - 1) : verdict[i] = "pass"

-----------------------------------------------------------------------------
(* the runner                                                              *)

\* catalogue entries started at top level so far, in the order of their t.Run
TopLevel ==
    LET top == SelectSeq(started, LAMBDA p : p[2] = 0)
    IN  [i \in 1..Len(top) |-> top[i][1]]

\* nested sub-tests started so far within catalogue entry k, in order
Nested(k) ==
    LET in == SelectSeq(started, LAMBDA p : p[1] = k /\ p[2] # 0)
    IN  [i \in 1..Len(in) |-> in[i][2]]

\* 1, 2, ..., n
UpTo(n) == [i \in 1..n |-> i]

\* RunStorageTests has gone through the whole catalogue
RunEnded == frame = "runner" /\ test = Len(tests) + 1

TheVariantsScenario == "Storage can handle all supported simple unit types"
TheListScenario == "Storage can handle list unit"

\* the entries are started one by one, each once, in catalogue order
InCatalogueOrder ==
    /\ test = 0 => started = <<>>
    /\ (test >= 1 /\ frame = "runner") => TopLevel = UpTo(test - 1)
    /\ (test >= 1 /\ frame # "runner") => TopLevel = UpTo(test)
    /\ RunEnded => \A i \in 1..Len(tests) : verdict[i] # "none"

\* the variants scenario runs one nested sub-test per element of unitsTests
OnePerVariant ==
    /\ (test = TestNo(TheVariantsScenario) /\ frame # "runner") =>
          Nested(test) = UpTo(sub)
    /\ test > TestNo(TheVariantsScenario) =>
          Nested(TestNo(TheVariantsScenario)) = UpTo(Len(unitsTests))

\* C11 as stated: one call of RunStorageTests runs one sub-test per catalogue
\* entry, each once and in catalogue order, and within both the variants
\* scenario and the list scenario one nested sub-test per unit type.
NestedSubTestsInBothScenarios ==
    /\ InCatalogueOrder
    /\ OnePerVariant
    /\ test > TestNo(TheListScenario) =>
          Len(Nested(TestNo(TheListScenario))) = Len(unitList.items)

\* C11 as amended: one call of RunStorageTests runs one sub-test per
\* catalogue entry, each once and in catalogue order; within the variants
\* scenario it runs one nested sub-test per unit type, and no other
\* scenario, the list scenario included, runs a nested sub-test.
NestedSubTestsInVariantsScenarioOnly ==
    /\ InCatalogueOrder
    /\ OnePerVariant
    /\ \A k \in 1..Len(tests) :
          k # TestNo(TheVariantsScenario) => Nested(k) = <<>>

\* a run has ended: twelve entries and the five nested sub-tests were started
WholeCatalogueRun ==
    /\ RunEnded
    /\ Len(started) = Len(tests) + Len(unitsTests)
    /\ Nested(TestNo(TheListScenario)) = <<>>

\* what entry i ends with when the catalogue is run in its order
CatalogueOutcome(i) ==
    IF tests[i].title = TheConfigScenario /\ l = "nil" THEN "skip" ELSE "pass"

\* C12: whatever ran before it (the entries before it in the catalogue, any
\* other entry run alone, an earlier run), every scenario ends with the
\* outcome it has in catalogue order.
OutcomeIndependentOfOrder ==
    /\ \A i \in 1..Len(tests) : verdict[i] \in {"none", CatalogueOutcome(i)}
    /\ (frame = "runner" /\ test >= 2 /\ only \in {0, test - 1}) =>
          verdict[test - 1] = CatalogueOutcome(test - 1)

\* "can not be used before it will be created" has just passed, run alone
\* right after a single scenario that left its storage created
RunAfterAnotherOrder ==
    /\ only = TestNo("Storage can not be used before it will be created")
    /\ Finished("Storage can not be used before it will be created")
    /\ verdict[only] = "pass"
    /\ Len(handles) = 2
    /\ IsCreated(1)

\* trace[i] hands out an instance: c(), or l(config) when it returns one
Obtains(i) == trace[i].op \in {"c", "l"} /\ trace[i].h # 0

\* the instance h was handed out to the scenario (or nested sub-test) that
\* is running, before its call i
Own(h, i) == \E k \in 1..(i - 1) : Obtains(k) /\ trace[k].h = h

\* C13: every scenario and every nested sub-test calls only instances it
\* obtained itself from c() (or l): no instance is handed out twice, and
\* none is used or held by a scenario or sub-test other than the one it was
\* handed out to.
InstancesAreNotShared ==
    /\ \A i \in Calls : ~Obtains(i) => Own(trace[i].h, i)
    /\ \A i, j \in Calls : (Obtains(i) /\ Obtains(j) /\ i # j) =>
          trace[i].h # trace[j].h
    /\ \A x \in HandleRegs : regs[x] # 0 => Own(regs[x], Len(trace) + 1)

\* the second nested sub-test has ended: all its calls went to the instance
\* it got from c(), which is not the one of the first sub-test
SecondSubTestOnItsOwnInstance ==
    /\ SubFinished /\ sub = 2
    /\ Obtains(1) /\ trace[1].h = regs.s
    /\ \A i \in Calls : trace[i].h = regs.s
    /\ regs.s > 1 /\ createCalls[regs.s - 1] = 1 /\ createCalls[regs.s] = 1

-----------------------------------------------------------------------------
(* backends that break the contract                                        *)

\* the process has ended on a panic
Panicked == frame = "panicked"

\* the variants scenario is over: it returned, or the process ended in it
VariantsScenarioOver ==
    \/ frame = "runner" /\ test > TestNo(TheVariantsScenario)
    \/ Panicked /\ test >= TestNo(TheVariantsScenario)

\* C14: in the variants scenario all five per-variant sub-tests are executed
\* whatever the outcome of the earlier ones: once the scenario is over, each
\* of the five has been started and has its verdict, a failed one included.
AllVariantsRunWhateverFails ==
    VariantsScenarioOver =>
        /\ Nested(TestNo(TheVariantsScenario)) = UpTo(Len(unitsTests))
        /\ test = TestNo(TheVariantsScenario) =>
              \A k \in 1..Len(unitsTests) : subverdict[k] \in {"pass", "fail"}

\* the step is an assertion that finds an outcome other than the required one
Unexpected ==
    \E op \in {"NoError", "Error", "True", "False", "Nil", "NotNil"} :
        At(op) /\ ~Holds(op, Body[pc].arg)

\* C15: a scenario is failed if and only if an observed outcome differs from
\* the required one, and the failure is immediate: once it is failed, the
\* scenario (or nested sub-test) issues no further storage operation.
FailureIsImmediate ==
    [][(frame \in {"test", "subtest"} /\ frame' = frame) =>
          /\ failed'[frame] <=> (failed[frame] \/ Unexpected)
          /\ failed[frame] => trace' = trace]_vars

\* the scenarios a backend fails, by the operation it breaks
FailsUnder(b) ==
    CASE b = "conforming" -> {}
      [] b = "LoadUnitFails" -> {TheVariantsScenario, TheListScenario, TheConfigScenario}
      [] b = "ListLoadFails" -> {TheListScenario}
      [] b = "RemoveUnitFails" -> {TheVariantsScenario, TheListScenario}
      [] b = "LoaderFails" -> {TheConfigScenario}

\* what entry i ends with on the backend under test
BackendOutcome(i) ==
    IF tests[i].title = TheConfigScenario /\ l = "nil" THEN "skip"
    ELSE IF tests[i].title \in FailsUnder(backend) THEN "fail"
    ELSE "pass"

\* C16: the verdicts depend on the presence of an error only, never on its
\* kind: whatever kinds the errors of a backend have, every scenario ends
\* with the one outcome that the situations in which it fails give it.
VerdictsIgnoreErrorKinds ==
    /\ \A i \in 1..Len(tests) : verdict[i] \in {"none", BackendOutcome(i)}
    /\ (frame = "runner" /\ test >= 2) =>
          verdict[test - 1] = BackendOutcome(test - 1)

\* LoadUnit("") was answered with an error of a kind other than the one the
\* contract names for it, and the scenario has passed
PassedOnAnotherKind ==
    /\ Finished("Empty ID cannot be used to load unit")
    /\ regs.e = "BackendFailure"
    /\ trace[Len(trace)].op = "LoadUnit" /\ trace[Len(trace)].err
    /\ verdict[test - 1] = "pass"

\* the trace is the one of the scenario `title`, running or just returned
InScenario(title) ==
    \/ frame = "test" /\ test = TestNo(title)
    \/ Finished(title)

\* trace[i] saves u on the instance h without error
SavesOn(i, h, u) ==
    trace[i].op = "SaveUnit" /\ trace[i].h = h /\ trace[i].unit = u /\ ~trace[i].err

\* C17: in the list scenario every child unit is saved before the list unit
\* that contains it, and the list loaded afterwards has exactly five
\* elements in the original order, each equal to its source unit.
ChildrenSavedBeforeTheirList ==
    InScenario(TheListScenario) =>
        \A i \in Calls :
            /\ (trace[i].op = "SaveUnit" /\ trace[i].unit.type = "list") =>
                  \A k \in 1..Len(trace[i].unit.items) :
                      \E j \in 1..(i - 1) :
                          SavesOn(j, trace[i].h, trace[i].unit.items[k])
            /\ (/\ trace[i].op = "LoadUnit" /\ trace[i].id = unitList.id
                /\ \E j \in 1..(i - 1) : SavesOn(j, trace[i].h, unitList)
                /\ \A m \in 1..(i - 1) : trace[m].op # "RemoveUnit") =>
                  /\ ~trace[i].err
                  /\ Len(trace[i].val.items) = Len(unitsTests)
                  /\ \A k \in 1..Len(unitsTests) :
                        Equal(trace[i].val.items[k], unitsTests[k])

\* the list scenario has returned: the five children and then the list were
\* saved, and the list was loaded with its five elements
ListLoadedWithItsChildren ==
    /\ Finished(TheListScenario)
    /\ \E i, j \in Calls :
          /\ i < j
          /\ SavesOn(i, regs.s, unitList)
          /\ trace[j].op = "LoadUnit" /\ trace[j].id = unitList.id
          /\ Len(trace[j].val.items) = 5
    /\ Cardinality({i \in Calls : trace[i].op = "SaveUnit"}) = 6

\* C18: the suite never exercises repeated creation: on every instance
\* Create() is called at most once, and never on an instance that is
\* created already.
CreateIsNeverRepeated ==
    /\ \A h \in DOMAIN createCalls : createCalls[h] <= 1
    /\ \A i \in Calls : trace[i].op = "Create" =>
          /\ trace[i].before # "created"
          /\ \A j \in Calls : (trace[j].op = "Create" /\ trace[j].h = trace[i].h) => j = i

\* every scenario of a run has ended: each instance saw Create() once or
\* never, and some saw it once
CreatedOnceSeen ==
    /\ RunEnded
    /\ \E h \in DOMAIN createCalls : createCalls[h] = 1
    /\ \E h \in DOMAIN createCalls : createCalls[h] = 0

\* C19: for every backend, conforming or not, every scenario ends with a
\* verdict in {pass, fail, skip} and no method is invoked on a nil unit or a
\* nil storage instance.
NothingIsInvokedOnNil ==
    /\ ~Panicked
    /\ RunEnded => \A i \in 1..Len(tests) : verdict[i] \in {"pass", "fail", "skip"}

\* a scenario, or a nested sub-test, has just ended and trace is its own
JustEnded ==
    \/ frame = "runner" /\ test >= 2
    \/ frame = "test" /\ sub >= 1
Ended == IF frame = "runner" THEN test - 1 ELSE test

\* the scenarios whose subject is removal
RemovalScenarios ==
    {"Storage can be removed if not created before",
     "Storage can be removed if was created before",
     "Storage is not created when removed"}

\* C20 as stated: at the end of every scenario and nested sub-test, each
\* instance on which it called Create() has been removed.
EveryCreatedStorageIsRemoved ==
    JustEnded =>
        \A i \in Calls : trace[i].op = "Create" =>
            /\ \E j \in Calls : j > i /\ trace[j].op = "Remove" /\ trace[j].h = trace[i].h
            /\ ~IsCreated(trace[i].h)

\* C20 as amended: only the scenarios whose subject is removal call
\* Remove(): at their end the instance they created has been removed; every
\* other scenario and nested sub-test that calls Create() never calls
\* Remove() and leaves its storage created.
OnlyRemovalScenariosDispose ==
    JustEnded =>
        \A i \in Calls : trace[i].op = "Create" =>
            IF tests[Ended].title \in RemovalScenarios
            THEN /\ \E j \in Calls :
                       j > i /\ trace[j].op = "Remove" /\ trace[j].h = trace[i].h
                 /\ ~IsCreated(trace[i].h)
            ELSE /\ \A j \in Calls : trace[j].op # "Remove"
                 /\ IsCreated(trace[i].h)

\* a run has ended, with an instance that was removed after its Create() and
\* an instance that Create() left created
CreatedStorageLeftBehind ==
    /\ RunEnded
    /\ \E g, h \in DOMAIN createCalls :
          /\ createCalls[g] = 1 /\ State(g) = "removed"
          /\ createCalls[h] = 1 /\ IsCreated(h)

====
